---- MODULE Spec2Model ----
(***************************************************************************)
(* A model of UnitTestGenerator (src/unit_test_generator.py) bound to the  *)
(* target calculate_discount of src/example_test.py.                       *)
(*                                                                         *)
(* Python values are records [t |-> type name, v |-> integer payload];     *)
(* Python strings that the code inspects character by character            *)
(* (descriptions, test names, ids) are sequences of one-character strings. *)
(***************************************************************************)
EXTENDS Integers, Sequences, FiniteSets, TLC

VARIABLES
    test_cases,     \* self.test_cases: the list of case dicts
    registered,     \* history: the arguments of every completed add_test_case call, in call order
    lastCall,       \* history: the last bulk_add_test_cases call, its argument and what it raised
    syncClass,      \* the class last returned by generate_test_class
    lastRun,        \* the last member of syncClass the runner invoked, and its outcome
    asyncClass,     \* the class last returned by generate_async_test_class
    tasks,          \* the runner's tasks, each driving one coroutine of a member of asyncClass
    binding,        \* what each dependency path is bound to in the process
    exported        \* the list last returned by generate_parameterized_tests

vars == <<test_cases, registered, lastCall, syncClass, lastRun, asyncClass, tasks, binding, exported>>

\* ---------------------------------------------------------------- bounds

MaxCases == 2
MaxBulk == 2
MaxTasks == 2

\* ---------------------------------------------------------------- Python values

None == [t |-> "NoneType", v |-> 0]
PyInt(n) == [t |-> "int", v |-> n]
PyFloat(n) == [t |-> "float", v |-> n]
PyStr(n) == [t |-> "str", v |-> n]

IsNumber(x) == x.t \in {"int", "float"}

\* Python's ==: numbers compare by value across int and float, everything else
\* by type and value.
PyEq(a, b) ==
    IF IsNumber(a) /\ IsNumber(b) THEN a.v = b.v
    ELSE a.t = b.t /\ a.v = b.v

\* Exception classes and issubclass.
NoException == "None"
ExceptionClasses == {"Exception", "TypeError", "ValueError", "NameError", "AssertionError"}

IsSubclass(raised, expected) ==
    \/ raised = expected
    \/ raised \in ExceptionClasses /\ expected = "Exception"

\* What a call produces: a returned value or a raised exception.
Returned(x) == [kind |-> "return", value |-> x, exc |-> NoException]
Raised(e) == [kind |-> "raise", value |-> None, exc |-> e]

\* ---------------------------------------------------------------- the target

\* The declared parameters of the target, both required.
param_types == {"price", "percentage"}

\* The body of calculate_discount for arguments that are bound.  True
\* division of the values used here is exact, so the float result is the
\* integer quotient.
calculate_discount_body(price, percentage) ==
    IF ~IsNumber(price) \/ ~IsNumber(percentage) THEN Raised("TypeError")
    ELSE IF percentage.v < 0 \/ percentage.v > 100 THEN Raised("ValueError")
    ELSE IF price.v < 0 THEN Raised("ValueError")
    ELSE Returned(PyFloat(price.v - ((price.v * percentage.v) \div 100)))

\* function_to_test(**inputs): Python binds the keywords to the parameters
\* first; an unexpected keyword or a missing required argument raises
\* TypeError before the body runs.
function_to_test(inputs) ==
    IF DOMAIN inputs # param_types THEN Raised("TypeError")
    ELSE calculate_discount_body(inputs["price"], inputs["percentage"])

\* ---------------------------------------------------------------- strings

Digits == <<"0", "1", "2", "3", "4", "5", "6", "7", "8", "9">>

\* str(n) for n >= 0.
RECURSIVE Decimal(_)
Decimal(n) ==
    IF n < 10 THEN <<Digits[n + 1]>>
    ELSE Decimal(n \div 10) \o <<Digits[(n % 10) + 1]>>

\* str.lower() on one character of the alphabet the descriptions use.
LowerChar(c) ==
    CASE c = "A" -> "a"
      [] c = "B" -> "b"
      [] OTHER -> c

Lower(s) == [k \in 1..Len(s) |-> LowerChar(s[k])]

\* str.replace(' ', '_'): every single space becomes one underscore.
ReplaceSpaces(s) == [k \in 1..Len(s) |-> IF s[k] = " " THEN "_" ELSE s[k]]

test_ == <<"t", "e", "s", "t", "_">>
test_case_ == <<"t", "e", "s", "t", "_", "c", "a", "s", "e", "_">>

\* The member name both class generators derive for the case at 0-based
\* index i.  An empty description is falsy.
test_name(i, test_case) ==
    IF test_case.description # <<>>
    THEN test_ \o ReplaceSpaces(Lower(test_case.description))
    ELSE test_case_ \o Decimal(i)

\* The id generate_parameterized_tests gives the case at 0-based index i.
param_id(i, case_) ==
    IF case_.description # <<>> THEN case_.description
    ELSE test_case_ \o Decimal(i)

\* ---------------------------------------------------------------- the case store

EmptyDict == <<>>

\* `mocks or {}`: None and the empty dict are falsy.
MocksOrEmpty(mocks) == IF mocks = None \/ mocks = EmptyDict THEN EmptyDict ELSE mocks

\* A store that loses the expected exception: the dict is built with
\* expected_exception left at its default.
CaseDictDropsException(inputs, expected_output, expected_exception, description, mocks) ==
    [inputs |-> inputs,
     expected_output |-> expected_output,
     expected_exception |-> NoException,
     description |-> description,
     mocks |-> MocksOrEmpty(mocks)]

\* The dict add_test_case appends.
CaseDict(inputs, expected_output, expected_exception, description, mocks) ==
    [inputs |-> inputs,
     expected_output |-> expected_output,
     expected_exception |-> expected_exception,
     description |-> description,
     mocks |-> MocksOrEmpty(mocks)]

add_test_case(inputs, expected_output, expected_exception, description, mocks) ==
    /\ Len(test_cases) < MaxCases
    /\ test_cases' = Append(test_cases,
            CaseDict(inputs, expected_output, expected_exception, description, mocks))
    /\ registered' = Append(registered, <<inputs, expected_output, expected_exception>>)
    /\ UNCHANGED <<lastCall, syncClass, lastRun, asyncClass, tasks, binding, exported>>

\* The parameters of add_test_case besides self; only inputs has no default.
AddTestCaseParams == {"inputs", "expected_output", "expected_exception", "description", "mocks"}
AddTestCaseRequired == {"inputs"}

\* A registration that swallows unknown keywords (a **kwargs parameter): only
\* the missing required argument stops the call.
BindsAnyKeywords(case_) == AddTestCaseRequired \subseteq DOMAIN case_

\* add_test_case(**case_) binds: a missing required argument or an unexpected
\* keyword raises TypeError before the body runs.
BindsToAddTestCase(case_) ==
    /\ AddTestCaseRequired \subseteq DOMAIN case_
    /\ DOMAIN case_ \subseteq AddTestCaseParams

Arg(case_, key, default) == IF key \in DOMAIN case_ THEN case_[key] ELSE default

\* The defaults of add_test_case's signature.
UnpackedCase(case_) ==
    CaseDict(case_["inputs"],
             Arg(case_, "expected_output", None),
             Arg(case_, "expected_exception", NoException),
             Arg(case_, "description", <<>>),
             Arg(case_, "mocks", None))

\* The loop of bulk_add_test_cases from element k on: each element is added
\* in turn, the first that does not bind raises TypeError out of the loop
\* and the elements before it stay added.
RECURSIVE BulkLoop(_, _, _)
BulkLoop(store, cases, k) ==
    IF k > Len(cases) THEN [test_cases |-> store, raised |-> NoException]
    ELSE IF ~BindsToAddTestCase(cases[k]) THEN [test_cases |-> store, raised |-> "TypeError"]
    ELSE BulkLoop(Append(store, UnpackedCase(cases[k])), cases, k + 1)

\* What an element hands to add_test_case for the three exported fields.
PassedArgs(case_) ==
    <<case_["inputs"], Arg(case_, "expected_output", None),
      Arg(case_, "expected_exception", NoException)>>

bulk_add_test_cases(cases) ==
    /\ Len(test_cases) + Len(cases) <= MaxCases
    /\ LET r == BulkLoop(test_cases, cases, 1)
       IN /\ test_cases' = r.test_cases
          /\ registered' = registered \o
                [k \in 1..(Len(r.test_cases) - Len(test_cases)) |-> PassedArgs(cases[k])]
          /\ lastCall' = [op |-> "bulk_add_test_cases", cases |-> cases,
                          raised |-> r.raised, before |-> Len(test_cases)]
    /\ UNCHANGED <<syncClass, lastRun, asyncClass, tasks, binding, exported>>

\* ---------------------------------------------------------------- generate_test_class

\* A class is its __name__, its attributes (member name -> function) and the
\* number of cases its generator enumerated.
NoClass == [name |-> "", members |-> EmptyDict, enumerated |-> 0]

\* setattr(cls, name, value): binds the attribute, replacing one of that name.
SetAttr(members, name, value) ==
    [n \in (DOMAIN members) \cup {name} |-> IF n = name THEN value ELSE members[n]]

\* create_test(case_): the closure test, which keeps the case it was made for.
create_test(case_) == [case_ |-> case_]

\* The loop without the create_test factory: every closure reads the loop
\* variable when it runs, which by then is the last case.
RECURSIVE SyncLoopLateBinding(_, _, _)
SyncLoopLateBinding(members, cases, k) ==
    IF k > Len(cases) THEN members
    ELSE SyncLoopLateBinding(
            SetAttr(members, test_name(k - 1, cases[k]), create_test(cases[Len(cases)])),
            cases, k + 1)

\* The loop of generate_test_class from the case at 0-based index k - 1 on.
RECURSIVE SyncLoop(_, _, _)
SyncLoop(members, cases, k) ==
    IF k > Len(cases) THEN members
    ELSE SyncLoop(SetAttr(members, test_name(k - 1, cases[k]), create_test(cases[k])),
                  cases, k + 1)

generate_test_class(class_name) ==
    /\ syncClass' = [name |-> class_name,
                     members |-> SyncLoop(EmptyDict, test_cases, 1),
                     enumerated |-> Len(test_cases)]
    /\ UNCHANGED <<test_cases, registered, lastCall, lastRun, asyncClass, tasks, binding, exported>>

\* What running a member reports: passed, or the exception that left it.
Passed == [passed |-> TRUE, error |-> NoException]
Failed(e) == [passed |-> FALSE, error |-> e]
NotRun == [name |-> <<>>, outcome |-> Failed(NoException)]

\* `with pytest.raises(expected): call`: an exception that is an instance of
\* expected is swallowed, another one propagates, none at all fails the test
\* with pytest's Failed ("DID NOT RAISE").
PytestRaises(expected, call) ==
    IF call.kind = "raise"
    THEN IF IsSubclass(call.exc, expected) THEN Passed ELSE Failed(call.exc)
    ELSE Failed("Failed")

\* The body of the closure test(self) of generate_test_class.  A class is
\* truthy, None is falsy.
test(member) ==
    LET case_ == member.case_
        call == function_to_test(case_.inputs)
    IN IF case_.expected_exception # NoException
       THEN PytestRaises(case_.expected_exception, call)
       ELSE IF call.kind = "raise" THEN Failed(call.exc)
       ELSE IF PyEq(call.value, case_.expected_output) THEN Passed
       ELSE Failed("AssertionError")

\* The runner invokes one member of the generated class.
RunSyncMember(name) ==
    /\ name \in DOMAIN syncClass.members
    /\ lastRun' = [name |-> name, outcome |-> test(syncClass.members[name])]
    /\ UNCHANGED <<test_cases, registered, lastCall, syncClass, asyncClass, tasks, binding, exported>>

\* ---------------------------------------------------------------- generate_parameterized_tests

\* pytest.param(inputs, expected_output, expected_exception, id=...)
pytest_param(i, case_) ==
    [values |-> <<case_.inputs, case_.expected_output, case_.expected_exception>>,
     id |-> param_id(i, case_)]

ParameterizedTests(cases) == [k \in 1..Len(cases) |-> pytest_param(k - 1, cases[k])]

NotExported == [returned |-> FALSE, params |-> <<>>]

generate_parameterized_tests ==
    /\ exported' = [returned |-> TRUE, params |-> ParameterizedTests(test_cases)]
    /\ UNCHANGED <<test_cases, registered, lastCall, syncClass, lastRun, asyncClass, tasks, binding>>

\* ---------------------------------------------------------------- generate_async_test_class

\* create_async_test(case): the coroutine function test, which keeps its case.
create_async_test(case) == [case |-> case]

\* The loop of generate_async_test_class from the case at 0-based index k - 1 on.
RECURSIVE AsyncLoop(_, _, _)
AsyncLoop(members, cases, k) ==
    IF k > Len(cases) THEN members
    ELSE AsyncLoop(SetAttr(members, test_name(k - 1, cases[k]), create_async_test(cases[k])),
                   cases, k + 1)

generate_async_test_class(class_name) ==
    /\ asyncClass' = [name |-> class_name,
                      members |-> AsyncLoop(EmptyDict, test_cases, 1),
                      enumerated |-> Len(test_cases)]
    /\ UNCHANGED <<test_cases, registered, lastCall, syncClass, lastRun, tasks, binding, exported>>

\* The first global name the coroutine looks up: patch in the first
\* iteration of the loop over the mocks, AsyncExitStack when there are none.
\* The module's imports bind neither and neither is a builtin.
FirstLookup(case) == IF DOMAIN case.mocks # {} THEN "patch" ELSE "AsyncExitStack"

\* The dependency paths a process binds, and what an unpatched one is bound to.
DependencyPaths == {"dep.path", "other.dep"}
Original == "original"

\* A coroutine that starts each patch of its case and never stops it: the
\* paths its case mocks stay bound to the substitutes.
async_test_patches_left(member, bind) ==
    [outcome |-> Failed("NameError"),
     unbound |-> FirstLookup(member.case),
     acquired |-> <<>>,
     driven |-> FALSE,
     binding |-> [p \in DOMAIN bind |->
                    IF p \in DOMAIN member.case.mocks THEN "substitute" ELSE bind[p]]]

\* One run of the coroutine test(self) of generate_async_test_class from a
\* process whose bindings are bind: what it reports, the name whose lookup
\* raised, the substitutions it entered (in order), whether it called
\* function_to_test, and the bindings it leaves.  The lookup of
\* FirstLookup(case) raises NameError, which leaves the coroutine before a
\* substitution is built or entered, before the target is called and before
\* any await.
async_test(member, bind) ==
    [outcome |-> Failed("NameError"),
     unbound |-> FirstLookup(member.case),
     acquired |-> <<>>,
     driven |-> FALSE,
     binding |-> bind]

\* How many tasks have exited so far.
Exited == Cardinality({t \in 1..Len(tasks) : tasks[t].state # "pending"})

\* The runner makes a task of the coroutine of one member.
CreateTask(name) ==
    /\ Len(tasks) < MaxTasks
    /\ name \in DOMAIN asyncClass.members
    /\ tasks' = Append(tasks, [name |-> name, coro |-> asyncClass.members[name],
                               state |-> "pending", outcome |-> Failed(NoException),
                               unbound |-> "", acquired |-> <<>>, driven |-> FALSE,
                               exit_order |-> 0])
    /\ UNCHANGED <<test_cases, registered, lastCall, syncClass, lastRun, asyncClass, binding, exported>>

\* The event loop runs a pending task: the coroutine runs until it awaits
\* or exits, and it exits before it awaits.
StepTask(t) ==
    /\ t \in 1..Len(tasks)
    /\ tasks[t].state = "pending"
    /\ LET r == async_test(tasks[t].coro, binding)
       IN /\ tasks' = [tasks EXCEPT ![t] = [@ EXCEPT !.state = "done",
                                                      !.outcome = r.outcome,
                                                      !.unbound = r.unbound,
                                                      !.acquired = r.acquired,
                                                      !.driven = r.driven,
                                                      !.exit_order = Exited + 1]]
          /\ binding' = r.binding
    /\ UNCHANGED <<test_cases, registered, lastCall, syncClass, lastRun, asyncClass, exported>>

\* The runner cancels a task that has not run yet: CancelledError is thrown
\* into the coroutine at its start, so no line of its body runs.
CancelTask(t) ==
    /\ t \in 1..Len(tasks)
    /\ tasks[t].state = "pending"
    /\ tasks' = [tasks EXCEPT ![t] = [@ EXCEPT !.state = "cancelled",
                                                !.outcome = Failed("CancelledError"),
                                                !.exit_order = Exited + 1]]
    /\ UNCHANGED <<test_cases, registered, lastCall, syncClass, lastRun, asyncClass, binding, exported>>

\* ---------------------------------------------------------------- the state machine

\* __init__, and a process in which nothing is patched.
Init ==
    /\ test_cases = <<>>
    /\ registered = <<>>
    /\ lastCall = [op |-> "", cases |-> <<>>, raised |-> NoException, before |-> 0]
    /\ syncClass = NoClass
    /\ lastRun = NotRun
    /\ asyncClass = NoClass
    /\ tasks = <<>>
    /\ binding = [p \in DependencyPaths |-> Original]
    /\ exported = NotExported

\* Inputs of the callers.
InGood == ("price" :> PyInt(100) @@ "percentage" :> PyInt(20))
InNegative == ("price" :> PyInt(100) @@ "percentage" :> PyInt(0 - 10))
InBogus == ("price" :> PyInt(100) @@ "percentage" :> PyInt(20) @@ "bogus" :> PyInt(1))
InNotNumber == ("price" :> PyStr(1) @@ "percentage" :> PyInt(20))

MockDep == ("dep.path" :> ("return_value" :> PyInt(1)))
MockBoth == ("dep.path" :> ("return_value" :> PyInt(1))
             @@ "other.dep" :> ("return_value" :> PyInt(0)))

ClassName == "TestDiscountCalculator"

Call(c) == add_test_case(c.inputs, c.expected_output, c.expected_exception,
                         c.description, c.mocks)

\* ---- the store: registration, bulk registration and the three generators

StoreCases ==
    {[inputs |-> InGood, expected_output |-> PyInt(80), expected_exception |-> NoException,
      description |-> <<"a">>, mocks |-> None],
     [inputs |-> InNegative, expected_output |-> None, expected_exception |-> "ValueError",
      description |-> <<>>, mocks |-> MockDep]}

BulkElements ==
    {("inputs" :> EmptyDict),
     ("inputs" :> InGood @@ "expected_output" :> PyInt(80) @@ "description" :> <<"b">>
        @@ "expected_exception" :> NoException @@ "mocks" :> MockDep),
     ("description" :> <<"b">> @@ "expected_output" :> PyInt(80)),
     ("inputs" :> InGood @@ "expected" :> PyInt(80))}

RECURSIVE SeqsUpTo(_, _)
SeqsUpTo(S, n) ==
    IF n = 0 THEN {<<>>}
    ELSE LET shorter == SeqsUpTo(S, n - 1)
         IN shorter \cup {Append(q, x) : q \in shorter, x \in S}

Next ==
    \/ \E c \in StoreCases : Call(c)
    \/ \E cases \in SeqsUpTo(BulkElements, MaxBulk) : bulk_add_test_cases(cases)
    \/ generate_test_class(ClassName)
    \/ generate_async_test_class(ClassName)
    \/ generate_parameterized_tests

Spec == Init /\ [][Next]_vars

\* ---- the synchronous members: registration, generate_test_class, the runner

SyncExpectations ==
    {<<PyInt(80), NoException>>, <<PyInt(90), NoException>>,
     <<None, "ValueError">>, <<None, "TypeError">>, <<None, "Exception">>}

\* Every input with every expectation under the default name, and two cases
\* that share the description "a".
SyncCases ==
    {[inputs |-> i, expected_output |-> e[1], expected_exception |-> e[2],
      description |-> <<>>, mocks |-> None] :
        i \in {InGood, InNegative, InBogus, InNotNumber},
        e \in SyncExpectations}
    \cup
    {[inputs |-> InGood, expected_output |-> PyInt(x), expected_exception |-> NoException,
      description |-> <<"a">>, mocks |-> None] : x \in {80, 90}}

NextSync ==
    \/ \E c \in SyncCases : Call(c)
    \/ generate_test_class(ClassName)
    \/ \E n \in DOMAIN syncClass.members : RunSyncMember(n)

SpecSync == Init /\ [][NextSync]_vars

\* ---- the names: registration with varying descriptions, the three generators

case_0 == <<"c", "a", "s", "e", "_", "0">>

Descriptions ==
    {<<>>, <<"a">>, <<"A">>, <<"a", " ", "b">>, <<"a", "_", "b">>,
     <<"a", " ", " ", "b">>, case_0}

NameCases ==
    {[inputs |-> InGood, expected_output |-> PyInt(80), expected_exception |-> NoException,
      description |-> d, mocks |-> None] : d \in Descriptions}

NextNames ==
    \/ \E c \in NameCases : Call(c)
    \/ generate_test_class(ClassName)
    \/ generate_async_test_class(ClassName)
    \/ generate_parameterized_tests

SpecNames == Init /\ [][NextNames]_vars

\* ---- the suspending members: registration, generate_async_test_class, the event loop

AsyncCases ==
    {[inputs |-> InGood, expected_output |-> PyInt(80), expected_exception |-> NoException,
      description |-> <<>>, mocks |-> None],
     [inputs |-> InGood, expected_output |-> PyInt(90), expected_exception |-> NoException,
      description |-> <<>>, mocks |-> EmptyDict],
     [inputs |-> InGood, expected_output |-> PyInt(80), expected_exception |-> NoException,
      description |-> <<>>, mocks |-> MockDep],
     [inputs |-> InNegative, expected_output |-> None, expected_exception |-> "ValueError",
      description |-> <<>>, mocks |-> MockDep],
     [inputs |-> InNegative, expected_output |-> None, expected_exception |-> "TypeError",
      description |-> <<"a">>, mocks |-> MockBoth]}

NextAsync ==
    \/ \E c \in AsyncCases : Call(c)
    \/ generate_async_test_class(ClassName)
    \/ \E n \in DOMAIN asyncClass.members : CreateTask(n)
    \/ \E t \in 1..Len(tasks) : StepTask(t)
    \/ \E t \in 1..Len(tasks) : CancelTask(t)

SpecAsync == Init /\ [][NextAsync]_vars

\* ---------------------------------------------------------------- the claims

\* The cases a class's generator enumerated: the store is append-only, so
\* they are still the first cls.enumerated cases of the store.
Enumerated(cls) == SubSeq(test_cases, 1, cls.enumerated)

\* The case at position k is the only one of cases that derives its member name.
UniqueName(cases, k) ==
    \A j \in 1..Len(cases) :
        j # k => test_name(j - 1, cases[j]) # test_name(k - 1, cases[k])

\* The pass/fail matrix of the specification for case c: the target, called
\* with c's inputs as keywords, raises an error of the expected kind, or no
\* error is expected, none is raised and the value equals expected_output.
ExpectedMatrix(c) ==
    LET call == function_to_test(c.inputs)
    IN \/ /\ c.expected_exception # NoException
          /\ call.kind = "raise"
          /\ IsSubclass(call.exc, c.expected_exception)
       \/ /\ c.expected_exception = NoException
          /\ call.kind = "return"
          /\ PyEq(call.value, c.expected_output)

\* C1: the member generate_test_class makes for a case whose member name is
\* unique reports success exactly when the pass/fail matrix holds of that
\* case: the expected error kind is raised, or none is expected, none is
\* raised and the value returned equals expected_output.
C1_SyncMemberFollowsMatrix ==
    \A k \in 1..syncClass.enumerated :
        (/\ UniqueName(Enumerated(syncClass), k)
         /\ lastRun.name = test_name(k - 1, test_cases[k]))
        => (lastRun.outcome.passed <=> ExpectedMatrix(test_cases[k]))

\* A member of a two-case class was run and passed because the target raised
\* ValueError where the case expects the wider kind Exception.
C1_Witness ==
    /\ syncClass.enumerated = 2
    /\ \E k \in 1..2 :
        /\ UniqueName(Enumerated(syncClass), k)
        /\ lastRun.name = test_name(k - 1, test_cases[k])
        /\ test_cases[k].expected_exception = "Exception"
        /\ function_to_test(test_cases[k].inputs) = Raised("ValueError")
        /\ lastRun.outcome.passed
        /\ test_cases[3 - k].expected_exception = NoException

\* C8: a member of a case whose inputs hold a key that is no parameter of
\* the target never reports success, whatever its expected_exception.
C8_UndeclaredKeywordNeverPasses ==
    \A k \in 1..syncClass.enumerated :
        (/\ UniqueName(Enumerated(syncClass), k)
         /\ lastRun.name = test_name(k - 1, test_cases[k])
         /\ ~(DOMAIN test_cases[k].inputs \subseteq param_types))
        => ~lastRun.outcome.passed

\* C2: every class a generator returned has one member per case it
\* enumerated (a store with two cases of one member name makes the
\* generator fail instead of returning a class).
C2_OneMemberPerCase ==
    /\ syncClass # NoClass
        => Cardinality(DOMAIN syncClass.members) = syncClass.enumerated
    /\ asyncClass # NoClass
        => Cardinality(DOMAIN asyncClass.members) = asyncClass.enumerated

\* The identifier base of the specification: the description lower-cased
\* with every run of spaces replaced by one underscore, or case_{i}.
RECURSIVE CollapseSpaces(_, _)
CollapseSpaces(s, k) ==
    IF k > Len(s) THEN <<>>
    ELSE IF s[k] = " "
         THEN (IF k > 1 /\ s[k - 1] = " " THEN <<>> ELSE <<"_">>) \o CollapseSpaces(s, k + 1)
         ELSE <<s[k]>> \o CollapseSpaces(s, k + 1)

IdentifierBase(i, description) ==
    IF description # <<>> THEN CollapseSpaces(Lower(description), 1)
    ELSE <<"c", "a", "s", "e", "_">> \o Decimal(i)

\* C9: the identifier of the k-th exported tuple is the identifier base of
\* the k-th case, and the member name the class generators derive for that
\* case is test_ followed by that same base.
C9_ExportedIdIsIdentifierBase ==
    \A k \in 1..Len(exported.params) :
        /\ exported.params[k].id = IdentifierBase(k - 1, test_cases[k].description)
        /\ test_name(k - 1, test_cases[k]) = test_ \o exported.params[k].id

\* C6: after any sequence of calls, generate_parameterized_tests returns one
\* tuple per completed registration, in registration order, carrying the
\* inputs, expected_output and expected_exception that registration passed;
\* the list it last returned is a prefix of that.
C6_ExportMatchesRegistrations ==
    /\ LET out == ParameterizedTests(test_cases)
       IN /\ Len(out) = Len(registered)
          /\ \A k \in 1..Len(out) : out[k].values = registered[k]
    /\ Len(exported.params) <= Len(registered)
    /\ \A k \in 1..Len(exported.params) : exported.params[k].values = registered[k]

\* Both class generators and the exporter have run, a bulk call and a
\* single registration have each added a case, and the exported list holds
\* both.
C6_Witness ==
    /\ syncClass # NoClass /\ syncClass.enumerated >= 1
    /\ asyncClass # NoClass /\ asyncClass.enumerated >= 1
    /\ lastCall.op = "bulk_add_test_cases" /\ Len(lastCall.cases) >= 1
    /\ lastCall.raised = NoException
    /\ exported.returned
    /\ Len(exported.params) = 2
    /\ exported.params[1].values # exported.params[2].values

\* The keys the specification allows in an element of bulk_register.
SpecCaseKeys == {"inputs", "expected_output", "expected_exception", "description", "mocks"}

OnlyInputsEmpty == ("inputs" :> EmptyDict)

\* C7: a bulk call raises (TypeError, the error the specification names
\* MalformedCaseError) when an element lacks the inputs key or holds a key
\* outside the five of a case; a call whose elements all bind does not
\* raise; and bulk_add_test_cases([{"inputs": {}}]) registers one case with
\* expected_output None, expected_exception None, description "" and
\* mocks {}.
C7_BulkRejectsMalformedOnly ==
    lastCall.op = "bulk_add_test_cases" =>
        /\ (\E k \in 1..Len(lastCall.cases) :
                \/ "inputs" \notin DOMAIN lastCall.cases[k]
                \/ ~(DOMAIN lastCall.cases[k] \subseteq SpecCaseKeys))
            => lastCall.raised = "TypeError"
        /\ (\A k \in 1..Len(lastCall.cases) : DOMAIN lastCall.cases[k] = {"inputs"})
            => /\ lastCall.raised = NoException
               /\ Len(test_cases) >= lastCall.before + Len(lastCall.cases)
        /\ lastCall.cases = <<OnlyInputsEmpty>>
            => test_cases[lastCall.before + 1] =
                    [inputs |-> EmptyDict, expected_output |-> None,
                     expected_exception |-> NoException, description |-> <<>>,
                     mocks |-> EmptyDict]

\* A bulk call of [{"inputs": {}}] has returned and the store holds its case.
C7_Witness ==
    /\ lastCall.op = "bulk_add_test_cases"
    /\ lastCall.cases = <<OnlyInputsEmpty>>
    /\ lastCall.raised = NoException
    /\ Len(test_cases) = lastCall.before + 1

C4_AsyncMemberFollowsMatrix ==
    \A t \in 1..Len(tasks) : \A k \in 1..asyncClass.enumerated :
        (/\ tasks[t].state = "done"
         /\ UniqueName(Enumerated(asyncClass), k)
         /\ tasks[t].name = test_name(k - 1, test_cases[k])
         /\ tasks[t].coro = asyncClass.members[tasks[t].name])
        => (tasks[t].outcome.passed <=> ExpectedMatrix(test_cases[k]))

Range(q) == {q[k] : k \in 1..Len(q)}

\* C5: a member whose coroutine has run to its end has entered every
\* substitution its case declares and has driven the target (with all of
\* them entered, none released before the outcome was evaluated).
C5_SubstitutionsHeldWhileDriven ==
    \A t \in 1..Len(tasks) :
        tasks[t].state = "done"
        => /\ tasks[t].driven
           /\ Range(tasks[t].acquired) = DOMAIN tasks[t].coro.case.mocks

====
